---- MODULE Spec2Model ----
(***************************************************************************)
(* The polling-and-narration loop of the three React components of the     *)
(* repository:                                                             *)
(*   LiveCognitiveCamera   (src/src/LiveCognitiveCamera.jsx, lines 4-129)  *)
(*   CinematicCognitiveUI  (src/src/LiveCognitiveCamera.jsx, lines 133-441)*)
(*   CognitiveAISystem     (src/src/CognitiveAISystem.jsx, lines 455-1144) *)
(*                                                                         *)
(* One behaviour follows one mounted instance of one component.  A state   *)
(* is the component's useState cells, the interval timer created by its    *)
(* effect together with the values that timer's callback closed over, the  *)
(* requests whose fetch has not resolved yet (each carrying the closure of *)
(* the callback that issued it) and the utterances held by the browser's   *)
(* speechSynthesis.  A handler, the re-render it causes and the effect     *)
(* clean-up / re-run of that render are one step.                          *)
(***************************************************************************)
EXTENDS Integers, Sequences, FiniteSets, TLC

VARIABLES
    comp,          \* which component this instance is
    backend,       \* the responses the network / server can produce
    pollBudget,    \* number of timer ticks explored in this scenario
    logging,       \* the run keeps the records `received` and `ticks`
    mounted,       \* the component is in the tree
    crashed,       \* a render threw and React removed the tree
    thought,       \* useState(null)
    loading,       \* useState(true)        (CinematicCognitiveUI only)
    lastSpoken,    \* useState("")
    voiceEnabled,  \* useState(false)
    history,       \* useState([])          (CinematicCognitiveUI only)
    timers,        \* active setInterval timers, each with its closure
    pending,       \* requests issued and not yet answered, with closure
    engine,        \* speechSynthesis: utterance playing + queued ones
    calls,         \* every utterance ever passed to speechSynthesis.speak
    received,      \* every response a poll callback has handled, in order
    overlapped,    \* some tick fired while a request was outstanding
    preempted,     \* utterances the latest call of speak found and removed
    ticks,         \* timer ticks so far
    clicks,        \* Enable Voice clicks so far
    effectRuns,    \* times the body of the polling effect has run
    active,        \* useState("pipeline")  (CognitiveAISystem only)
    expandedStage, \* useState(null)        (CognitiveAISystem only)
    expandedPrompt,\* useState(null)        (CognitiveAISystem only)
    expandedRule   \* useState(null)        (CognitiveAISystem only)

vars == <<comp, backend, pollBudget, logging, mounted, crashed, thought, loading,
          lastSpoken, voiceEnabled, history, timers, pending, engine, calls,
          received, overlapped, preempted, ticks, clicks, effectRuns,
          active, expandedStage, expandedPrompt, expandedRule>>

(* The state of the documentation pages of CognitiveAISystem.              *)
docVars == <<active, expandedStage, expandedPrompt, expandedRule>>

----------------------------------------------------------------------------
(* Bounds of the exploration.                                              *)

MaxPolls == 3
MaxHistoryPolls == 9
MaxPending == 2
MaxClicks == 2
MaxLabels == 2
MaxScenePolls == 1
MaxDocPolls == 2

----------------------------------------------------------------------------
(* Components.                                                             *)

Live == "LiveCognitiveCamera"
Cine == "CinematicCognitiveUI"
Sys == "CognitiveAISystem"
Components == {Live, Cine, Sys}

----------------------------------------------------------------------------
(* Response bodies.  A body is what res.json() resolves to.  `shape` says  *)
(* which property paths exist on it:                                       *)
(*   "null"          the JSON value null                                   *)
(*   "nopipeline"    an object without `pipeline`, e.g. {"detail": "..."}  *)
(*   "noperception"  pipeline.interpretation / uncertainty / risk present, *)
(*                   pipeline.perception absent                            *)
(*   "thought"       the full Thought shape                                *)
(* `tone` is meta.tone, "nometa" when the body has no `meta`.              *)

NullBody ==
    [shape |-> "null", summary |-> "", objects |-> <<>>, risk |-> "",
     tone |-> "nometa"]

ErrorBody ==
    [shape |-> "nopipeline", summary |-> "", objects |-> <<>>, risk |-> "",
     tone |-> "nometa"]

NoPerception(s, r) ==
    [shape |-> "noperception", summary |-> s, objects |-> <<>>, risk |-> r,
     tone |-> "nometa"]

Thought(s, labels, r, t) ==
    [shape |-> "thought", summary |-> s,
     objects |-> [i \in DOMAIN labels |-> [label |-> labels[i]]],
     risk |-> r, tone |-> t]

HasPipeline(d) == d.shape \in {"noperception", "thought"}
HasObjects(d) == d.shape = "thought"

(* A response: the fetch rejects, or it resolves and the body is not JSON, *)
(* or it resolves with HTTP status ok / not ok and a JSON body.            *)
Reject == [kind |-> "reject", ok |-> FALSE, body |-> NullBody]
BadJson(ok) == [kind |-> "badjson", ok |-> ok, body |-> NullBody]
Json(ok, d) == [kind |-> "json", ok |-> ok, body |-> d]

----------------------------------------------------------------------------
(* Pure helpers of the components.                                         *)

Includes(seq, x) == \E i \in DOMAIN seq : seq[i] = x

(* Mutant of humanizeThought: the laptop test comes first.                 *)
humanizeThought_LaptopFirst(t) ==
    LET objects == t.objects
        risk == t.risk
        labels == [i \in DOMAIN objects |-> objects[i].label]
    IN  IF Includes(labels, "laptop")
          THEN "A laptop is in front of you."
        ELSE IF Includes(labels, "person") /\ risk = "LOW"
          THEN "I can see someone nearby. Everything looks safe."
        ELSE IF Includes(labels, "person") /\ risk = "MEDIUM"
          THEN "Someone is close. Stay aware."
        ELSE IF Includes(labels, "person") /\ risk = "HIGH"
          THEN "Warning. Someone is very close."
        ELSE "I'm observing the surroundings."

(* humanizeThought, LiveCognitiveCamera.jsx 161-178.  Called only on a     *)
(* body that has pipeline.perception.objects (otherwise it throws, see     *)
(* Throws below).                                                          *)
humanizeThought(t) ==
    LET objects == t.objects
        risk == t.risk
        labels == [i \in DOMAIN objects |-> objects[i].label]
    IN  IF Includes(labels, "person") /\ risk = "LOW"
          THEN "I can see someone nearby. Everything looks safe."
        ELSE IF Includes(labels, "person") /\ risk = "MEDIUM"
          THEN "Someone is close. Stay aware."
        ELSE IF Includes(labels, "person") /\ risk = "HIGH"
          THEN "Warning. Someone is very close."
        ELSE IF Includes(labels, "laptop")
          THEN "A laptop is in front of you."
        ELSE "I'm observing the surroundings."

(* Mutant of Utterance: speakWithTone ignores its tone argument.           *)
Utterance_ToneBlind(c, text, tone) ==
    IF c = Live THEN [text |-> text, rate |-> 100, pitch |-> 100]
    ELSE IF c = Cine THEN [text |-> text, rate |-> 92, pitch |-> 105]
    ELSE [text |-> text, rate |-> 95, pitch |-> 105]

(* The utterance a component builds for a text: rate and pitch in          *)
(* hundredths.  Only CognitiveAISystem looks at the tone.                  *)
Utterance(c, text, tone) ==
    IF c = Live THEN [text |-> text, rate |-> 100, pitch |-> 100]
    ELSE IF c = Cine THEN [text |-> text, rate |-> 92, pitch |-> 105]
    ELSE IF tone = "urgent" THEN [text |-> text, rate |-> 110, pitch |-> 80]
    ELSE IF tone = "curious" THEN [text |-> text, rate |-> 100, pitch |-> 120]
    ELSE [text |-> text, rate |-> 95, pitch |-> 105]

(* Mutant of cancel: the call is forgotten, earlier utterances stay.       *)
cancel_Nothing(eng) == eng

(* speechSynthesis.cancel(): removes the playing and all queued utterances *)
cancel(eng) == <<>>

(* Mutant of speak: the `if (!voiceEnabled) return` line is missing.       *)
speak_Unguarded(c, ve, text, tone, src, sp) ==
    LET utter == Utterance(c, text, tone)
    IN  [engine |-> Append(<<>>, utter),
         calls |-> Append(sp.calls, [text |-> utter.text, src |-> src,
                                     rate |-> utter.rate,
                                     pitch |-> utter.pitch]),
         preempted |-> Len(sp.engine)]

(* speak / speakWithTone as seen by a caller whose closure holds the value *)
(* `ve` of voiceEnabled.  `sp` is the speech state (engine, calls,         *)
(* preempted); `src` records who called ("poll" or "click").               *)
speak(c, ve, text, tone, src, sp) ==
    IF ~ve THEN sp
    ELSE LET utter == Utterance(c, text, tone)
         IN  [engine |-> Append(cancel(sp.engine), utter),
              calls |-> Append(sp.calls, [text |-> utter.text, src |-> src,
                                          rate |-> utter.rate,
                                          pitch |-> utter.pitch]),
              preempted |-> Len(sp.engine)]

(* The phrase and tone of the Enable Voice button.                         *)
ActivationPhrase(c) ==
    IF c = Cine THEN "Cognitive voice online" ELSE "Voice system activated"

(* data.meta?.tone || "calm"                                               *)
ToneOf(d) == IF d.tone \in {"nometa", ""} THEN "calm" ELSE d.tone

----------------------------------------------------------------------------
(* The body of the interval callback after the two awaits.                 *)

(* The statement after the setState calls dereferences the body: in        *)
(* LiveCognitiveCamera and CognitiveAISystem data.pipeline.interpretation  *)
(* .summary, in CinematicCognitiveUI humanizeThought(data), which reads    *)
(* data.pipeline.perception.objects.  A TypeError there jumps to catch.    *)
Throws(c, d) == IF c = Cine THEN ~HasObjects(d) ELSE ~HasPipeline(d)

(* Mutant of NarrationText: CinematicCognitiveUI narrates the summary.     *)
NarrationText_Summary(c, d) == d.summary

(* The text a poll narrates.                                               *)
NarrationText(c, d) == IF c = Cine THEN humanizeThought(d) ELSE d.summary

(* Mutant of ShouldNarrate: the comparison with lastSpoken is missing.     *)
ShouldNarrate_NoDedup(c, cl, text) ==
    /\ text # ""
    /\ (c = Sys => cl.ve)

(* Mutant of ShouldNarrate: the test `summary &&` is missing.               *)
ShouldNarrate_NoEmptyTest(c, cl, text) ==
    /\ text # cl.ls
    /\ (c = Sys => cl.ve)

(* The de-duplication guard of the callback; cl is the callback's closure. *)
ShouldNarrate(c, cl, text) ==
    /\ text # ""
    /\ text # cl.ls
    /\ (c = Sys => cl.ve)

(* setHistory(prev => [data, ...prev.slice(0, 6)])                         *)
HistoryKeep == 6
Min(a, b) == IF a < b THEN a ELSE b
(* Mutant of pushHistory: the slice is missing.                            *)
pushHistory_NoSlice(prev, data) == <<data>> \o prev

pushHistory(prev, data) ==
    <<data>> \o SubSeq(prev, 1, Min(HistoryKeep, Len(prev)))

(* Mutant of pollCallback: the catch block clears the displayed thought.   *)
pollCallback_ClearOnFailure(c, cl, r, sp) ==
    LET data == r.body
        stored == r.kind = "json"
        text == NarrationText(c, data)
        narrate == stored /\ ~Throws(c, data) /\ ShouldNarrate(c, cl, text)
    IN  [setThought |-> TRUE,
         data |-> IF stored THEN data ELSE NullBody,
         setLastSpoken |-> narrate,
         text |-> IF narrate THEN text ELSE "",
         sp |-> IF narrate
                  THEN speak(c, cl.ve, text, ToneOf(data), "poll", sp)
                  ELSE sp]

(* Mutant of pollCallback: the thought is replaced only when the narration *)
(* text changed.                                                           *)
pollCallback_OnlyOnChange(c, cl, r, sp) ==
    LET data == r.body
        stored == r.kind = "json"
        text == NarrationText(c, data)
        narrate == stored /\ ~Throws(c, data) /\ ShouldNarrate(c, cl, text)
    IN  [setThought |-> narrate,
         data |-> data,
         setLastSpoken |-> narrate,
         text |-> IF narrate THEN text ELSE "",
         sp |-> IF narrate
                  THEN speak(c, cl.ve, text, ToneOf(data), "poll", sp)
                  ELSE sp]

(* What the callback does with response r: which setState calls it makes   *)
(* and what it says.  Nothing consults r.ok.                               *)
pollCallback(c, cl, r, sp) ==
    LET data == r.body
        stored == r.kind = "json"
        text == NarrationText(c, data)
        narrate == stored /\ ~Throws(c, data) /\ ShouldNarrate(c, cl, text)
    IN  [setThought |-> stored,
         data |-> data,
         setLastSpoken |-> narrate,
         text |-> IF narrate THEN text ELSE "",
         sp |-> IF narrate
                  THEN speak(c, cl.ve, text, ToneOf(data), "poll", sp)
                  ELSE sp]

----------------------------------------------------------------------------
(* Rendering.                                                              *)

(* The JSX dereferences thought.pipeline.interpretation.summary,           *)
(* thought.pipeline.uncertainty.overall and thought.pipeline.risk.level    *)
(* behind `thought &&` only, and h.pipeline.interpretation.summary for     *)
(* every history entry h with no guard at all.                             *)
ThoughtRenders(th) == th.shape = "null" \/ HasPipeline(th)
EntryRenders(h) == HasPipeline(h)
Renders(th, hist) ==
    /\ ThoughtRenders(th)
    /\ \A i \in DOMAIN hist : EntryRenders(hist[i])

(* Mutant of clearInterval: the timer is left running.                     *)
clearInterval_Nothing(ts) == ts

(* The clean-up function of the polling effect: clearInterval(interval),   *)
(* and in CognitiveAISystem also speechSynthesis.cancel().                 *)
clearInterval(ts) == SubSeq(ts, 1, Len(ts) - 1)
cleanupEngine(c, eng) == IF c = Sys THEN cancel(eng) ELSE eng

(* Mutant of Commit: the effect has no dependency list, so its clean-up    *)
(* and its body run after every render.                                    *)
Commit_NoDeps(th, ld, hist, ls, ve, sp) ==
    /\ thought' = th
    /\ loading' = ld
    /\ history' = hist
    /\ lastSpoken' = ls
    /\ voiceEnabled' = ve
    /\ calls' = sp.calls
    /\ preempted' = sp.preempted
    /\ IF ~Renders(th, hist)
         THEN /\ mounted' = FALSE
              /\ crashed' = TRUE
              /\ timers' = clearInterval(timers)
              /\ engine' = cleanupEngine(comp, sp.engine)
              /\ UNCHANGED effectRuns
       ELSE /\ timers' = Append(clearInterval(timers), [ls |-> ls, ve |-> ve])
            /\ engine' = cleanupEngine(comp, sp.engine)
            /\ effectRuns' = IF logging THEN effectRuns + 1 ELSE effectRuns
            /\ UNCHANGED <<mounted, crashed>>

(* Commit of a batch of state updates made by a handler while mounted:     *)
(* React renders with the new values.  If the render throws, the tree is   *)
(* removed (there is no error boundary) and the effect's clean-up runs.    *)
(* Otherwise, if a dependency of the polling effect (lastSpoken,           *)
(* voiceEnabled, and speak which changes with voiceEnabled) changed, the   *)
(* clean-up of the old effect runs and the effect runs again, creating a   *)
(* timer whose callback closes over the new values.                        *)
Commit(th, ld, hist, ls, ve, sp) ==
    /\ thought' = th
    /\ loading' = ld
    /\ history' = hist
    /\ lastSpoken' = ls
    /\ voiceEnabled' = ve
    /\ calls' = sp.calls
    /\ preempted' = sp.preempted
    /\ IF ~Renders(th, hist)
         THEN /\ mounted' = FALSE
              /\ crashed' = TRUE
              /\ timers' = clearInterval(timers)
              /\ engine' = cleanupEngine(comp, sp.engine)
              /\ UNCHANGED effectRuns
       ELSE IF ls # lastSpoken \/ ve # voiceEnabled
         THEN /\ timers' = Append(clearInterval(timers), [ls |-> ls, ve |-> ve])
              /\ engine' = cleanupEngine(comp, sp.engine)
              /\ effectRuns' = IF logging THEN effectRuns + 1 ELSE effectRuns
              /\ UNCHANGED <<mounted, crashed>>
       ELSE /\ engine' = sp.engine
            /\ UNCHANGED <<mounted, crashed, timers, effectRuns>>

----------------------------------------------------------------------------
(* Scenarios.                                                              *)

ThoughtA == Thought("A", <<"laptop">>, "LOW", "nometa")
ThoughtB == Thought("B", <<"laptop">>, "LOW", "urgent")
ThoughtP == Thought("A", <<"person", "laptop">>, "HIGH", "nometa")
Partial == NoPerception("B", "LOW")

(* What the network can do.  A run is played against one kind of backend:  *)
(* one that answers with well-formed thoughts, one whose transport fails   *)
(* (fetch rejects, body is not JSON), one that answers with a non-OK       *)
(* status, and one whose JSON does not have the Thought shape.             *)
WellFormed == {Json(TRUE, ThoughtA), Json(TRUE, ThoughtB), Json(TRUE, ThoughtP)}
Transport == {Json(TRUE, ThoughtA), Reject, BadJson(TRUE)}
Status == {Json(TRUE, ThoughtA), Json(FALSE, ErrorBody), Json(FALSE, ThoughtB)}
Malformed ==
    {Json(TRUE, ThoughtA), Json(TRUE, NullBody), Json(TRUE, ErrorBody),
     Json(TRUE, Partial)}
Backends == {WellFormed, Transport, Status, Malformed}

(* The state after the first render and the first run of the effect.       *)
InitState(c) ==
    /\ comp = c
    /\ mounted = TRUE
    /\ crashed = FALSE
    /\ thought = NullBody
    /\ loading = (c = Cine)
    /\ lastSpoken = ""
    /\ voiceEnabled = FALSE
    /\ history = <<>>
    /\ timers = <<[ls |-> "", ve |-> FALSE]>>
    /\ pending = <<>>
    /\ engine = <<>>
    /\ calls = <<>>
    /\ received = <<>>
    /\ overlapped = FALSE
    /\ preempted = 0
    /\ ticks = 0
    /\ clicks = 0
    /\ effectRuns = 1
    /\ active = "pipeline"
    /\ expandedStage = {}
    /\ expandedPrompt = {}
    /\ expandedRule = {}

Init ==
    /\ \E c \in Components : InitState(c)
    /\ backend \in Backends
    /\ pollBudget = MaxPolls
    /\ logging = TRUE

----------------------------------------------------------------------------
(* Actions.                                                                *)

Speech == [engine |-> engine, calls |-> calls, preempted |-> preempted]

(* Mutant of EnableVoice: the button toggles voiceEnabled.                 *)
EnableVoice_Toggle ==
    /\ mounted
    /\ clicks < MaxClicks
    /\ clicks' = clicks + 1
    /\ LET sp == speak(comp, voiceEnabled, ActivationPhrase(comp), "curious",
                       "click", Speech)
       IN  Commit(thought, loading, history, lastSpoken, ~voiceEnabled, sp)
    /\ UNCHANGED <<comp, backend, pollBudget, logging, pending, received,
                   overlapped, ticks>>
    /\ UNCHANGED docVars

(* The onClick of the Enable Voice button: setVoiceEnabled(true), then     *)
(* speak(phrase) through the speak of the render that drew the button.     *)
EnableVoice ==
    /\ mounted
    /\ clicks < MaxClicks
    /\ clicks' = clicks + 1
    /\ LET sp == speak(comp, voiceEnabled, ActivationPhrase(comp), "curious",
                       "click", Speech)
       IN  Commit(thought, loading, history, lastSpoken, TRUE, sp)
    /\ UNCHANGED <<comp, backend, pollBudget, logging, pending, received,
                   overlapped, ticks>>
    /\ UNCHANGED docVars

(* Mutant of Tick: a tick that finds a request outstanding issues none.    *)
Tick_Coalesced ==
    /\ logging => ticks < pollBudget
    /\ Len(pending) < MaxPending
    /\ timers # <<>>
    /\ \E i \in DOMAIN timers :
          pending' = IF pending = <<>> THEN <<timers[i]>> ELSE pending
    /\ ticks' = IF logging THEN ticks + 1 ELSE ticks
    /\ overlapped' = (overlapped \/ pending # <<>>)
    /\ UNCHANGED <<comp, backend, pollBudget, logging, mounted, crashed,
                   thought, loading, lastSpoken, voiceEnabled, history, timers,
                   engine, calls, received, preempted, clicks, effectRuns>>
    /\ UNCHANGED docVars

(* An interval timer fires: its callback starts and suspends at            *)
(* `await fetch(...)`.                                                     *)
Tick ==
    /\ logging => ticks < pollBudget
    /\ Len(pending) < MaxPending
    /\ \E i \in DOMAIN timers :
          pending' = Append(pending, timers[i])
    /\ ticks' = IF logging THEN ticks + 1 ELSE ticks
    /\ overlapped' = (overlapped \/ pending # <<>>)
    /\ UNCHANGED <<comp, backend, pollBudget, logging, mounted, crashed,
                   thought, loading, lastSpoken, voiceEnabled, history, timers,
                   engine, calls, received, preempted, clicks, effectRuns>>
    /\ UNCHANGED docVars

RemoveAt(seq, i) == SubSeq(seq, 1, i - 1) \o SubSeq(seq, i + 1, Len(seq))

(* The fetch of an outstanding request settles with r and the rest of the  *)
(* callback runs.  After an unmount the setState calls do nothing, the     *)
(* call of speak still happens.                                            *)
Respond ==
    \E i \in DOMAIN pending : \E r \in backend :
      LET cl == pending[i]
          out == pollCallback(comp, cl, r, Speech)
      IN  /\ pending' = RemoveAt(pending, i)
          /\ received' = IF logging
                           THEN Append(received,
                                       [resp |-> r, ls |-> cl.ls, ve |-> cl.ve])
                           ELSE received
          /\ IF mounted
               THEN Commit(IF out.setThought THEN out.data ELSE thought,
                           IF out.setThought /\ comp = Cine THEN FALSE ELSE loading,
                           IF out.setThought /\ comp = Cine
                             THEN pushHistory(history, out.data) ELSE history,
                           IF out.setLastSpoken THEN out.text ELSE lastSpoken,
                           voiceEnabled,
                           out.sp)
               ELSE /\ engine' = out.sp.engine
                    /\ calls' = out.sp.calls
                    /\ preempted' = out.sp.preempted
                    /\ UNCHANGED <<mounted, crashed, thought, loading, history,
                                   lastSpoken, voiceEnabled, timers, effectRuns>>
          /\ UNCHANGED <<comp, backend, pollBudget, logging, overlapped, ticks,
                         clicks>>
          /\ UNCHANGED docVars

(* The utterance being played ends; the engine starts the next queued one. *)
UtteranceEnd ==
    /\ engine # <<>>
    /\ engine' = Tail(engine)
    /\ UNCHANGED <<comp, backend, pollBudget, logging, mounted, crashed,
                   thought, loading, lastSpoken, voiceEnabled, history, timers,
                   pending, calls, received, overlapped, preempted, ticks,
                   clicks, effectRuns>>
    /\ UNCHANGED docVars

(* The component is removed from the tree: the effect's clean-up runs.     *)
Unmount ==
    /\ mounted
    /\ mounted' = FALSE
    /\ timers' = clearInterval(timers)
    /\ engine' = cleanupEngine(comp, engine)
    /\ UNCHANGED <<comp, backend, pollBudget, logging, crashed, thought,
                   loading, lastSpoken, voiceEnabled, history, pending, calls,
                   received, overlapped, preempted, ticks, clicks, effectRuns>>
    /\ UNCHANGED docVars

Next == EnableVoice \/ Tick \/ Respond \/ UtteranceEnd \/ Unmount

Spec == Init /\ [][Next]_vars

(* Long runs of CinematicCognitiveUI, enough polls to overflow history.    *)
Timeline == {Json(TRUE, ThoughtA), Json(TRUE, ThoughtP)}

InitHistory ==
    /\ InitState(Cine)
    /\ backend = Timeline
    /\ pollBudget = MaxHistoryPolls
    /\ logging = TRUE

(* A tick that finds no request outstanding.                               *)
TickIdle == pending = <<>> /\ Tick

NextHistory == EnableVoice \/ TickIdle \/ Respond \/ UtteranceEnd \/ Unmount

SpecHistory == InitHistory /\ [][NextHistory]_vars

(* A component that stays mounted in front of a backend that answers every *)
(* poll with the same thought.  The timer keeps firing and every fetch     *)
(* settles; the run keeps no record of the polls, so it can go on forever. *)
Steady == {Json(TRUE, ThoughtA)}

InitSteady ==
    /\ \E c \in Components : InitState(c)
    /\ backend = Steady
    /\ pollBudget = 0
    /\ logging = FALSE

NextSteady == EnableVoice \/ Tick \/ Respond \/ UtteranceEnd

SpecSteady ==
    InitSteady /\ [][NextSteady]_vars /\ WF_vars(Tick) /\ WF_vars(Respond)

(* A backend whose interpretation stage sometimes has nothing to say: the  *)
(* summary of some thoughts is the empty string.                           *)
ThoughtE == Thought("", <<"laptop">>, "LOW", "nometa")
Quiet == {Json(TRUE, ThoughtA), Json(TRUE, ThoughtE)}

InitQuiet ==
    /\ \E c \in {Live, Sys} : InitState(c)
    /\ backend = Quiet
    /\ pollBudget = MaxPolls
    /\ logging = TRUE

SpecQuiet == InitQuiet /\ [][Next]_vars

(* CinematicCognitiveUI in front of one scene: every poll is answered with *)
(* the same thought, and the thought ranges over every list of detected    *)
(* labels up to MaxLabels, every value of the risk.level enumeration of    *)
(* the schema and two summaries.                                           *)
Labels == {"person", "laptop", "chair"}
RiskLevels == {"SAFE", "LOW", "MEDIUM", "HIGH", "CRITICAL"}
LabelLists == UNION {[1..n -> Labels] : n \in 0..MaxLabels}
Scenes ==
    {Thought(s, l, r, "nometa") :
        s \in {"A", "B"}, l \in LabelLists, r \in RiskLevels}

InitScenes ==
    /\ InitState(Cine)
    /\ \E t \in Scenes : backend = {Json(TRUE, t)}
    /\ pollBudget = MaxScenePolls
    /\ logging = TRUE

SpecScenes == InitScenes /\ [][Next]_vars

(* CognitiveAISystem in front of a backend that tags its thoughts with one *)
(* tone: no `meta` at all, an empty tone, the three tones speakWithTone    *)
(* knows about, or a tone it does not know.                                *)
Tones == {"nometa", "", "calm", "urgent", "curious", "excited"}

InitTones ==
    /\ InitState(Sys)
    /\ \E t \in Tones :
          backend = {Json(TRUE, Thought("A", <<"laptop">>, "LOW", t)),
                     Json(TRUE, Thought("B", <<"laptop">>, "LOW", t))}
    /\ pollBudget = MaxPolls
    /\ logging = TRUE

SpecTones == InitTones /\ [][Next]_vars

(* The documentation pages of CognitiveAISystem: a navigation bar selects  *)
(* the section shown; the stage cards of the pipeline section, the prompt  *)
(* cards of the prompts section and the rule cards of the rules section    *)
(* expand and collapse on click.  A card state is the set of expanded      *)
(* cards of its kind: empty for null, otherwise one id.                    *)
SECTIONS == {"pipeline", "prompts", "uncertainty", "schema", "rules"}
StageIds ==
    {"perception", "interpretation", "uncertainty", "risk", "reflection"}
PromptIndexes == 0..3
RuleIds == {"R1", "R2", "R3", "R4", "R5", "R6", "R7"}

(* x === id ? null : id                                                    *)
Toggle(expanded, id) == IF expanded = {id} THEN {} ELSE {id}

(* The render after a handler that touched none of thought, loading,       *)
(* history, lastSpoken, voiceEnabled and did not speak.                    *)
Rerender == Commit(thought, loading, history, lastSpoken, voiceEnabled, Speech)

(* onClick={() => setActive(s)}                                            *)
SelectSection ==
    /\ mounted
    /\ comp = Sys
    /\ \E s \in SECTIONS : active' = s
    /\ Rerender
    /\ UNCHANGED <<comp, backend, pollBudget, logging, pending, received,
                   overlapped, ticks, clicks, expandedStage, expandedPrompt,
                   expandedRule>>

(* onClick={() => setExpandedStage(expandedStage === stage.id ? null : ..)} *)
ToggleStage ==
    /\ mounted
    /\ comp = Sys
    /\ active = "pipeline"
    /\ \E id \in StageIds : expandedStage' = Toggle(expandedStage, id)
    /\ Rerender
    /\ UNCHANGED <<comp, backend, pollBudget, logging, pending, received,
                   overlapped, ticks, clicks, active, expandedPrompt,
                   expandedRule>>

(* onClick={() => setExpandedPrompt(expandedPrompt === i ? null : i)}      *)
TogglePrompt ==
    /\ mounted
    /\ comp = Sys
    /\ active = "prompts"
    /\ \E i \in PromptIndexes : expandedPrompt' = Toggle(expandedPrompt, i)
    /\ Rerender
    /\ UNCHANGED <<comp, backend, pollBudget, logging, pending, received,
                   overlapped, ticks, clicks, active, expandedStage,
                   expandedRule>>

(* onClick={() => setExpandedRule(expandedRule === rule.id ? null : ..)}   *)
ToggleRule ==
    /\ mounted
    /\ comp = Sys
    /\ active = "rules"
    /\ \E id \in RuleIds : expandedRule' = Toggle(expandedRule, id)
    /\ Rerender
    /\ UNCHANGED <<comp, backend, pollBudget, logging, pending, received,
                   overlapped, ticks, clicks, active, expandedStage,
                   expandedPrompt>>

(* A component polling one backend, requests answered one at a time, while *)
(* the user browses the documentation pages.                               *)
InitDocs ==
    /\ \E c \in Components : InitState(c)
    /\ backend = Steady
    /\ pollBudget = MaxDocPolls
    /\ logging = TRUE

NextDocs ==
    \/ EnableVoice \/ TickIdle \/ Respond \/ UtteranceEnd \/ Unmount
    \/ SelectSection \/ ToggleStage \/ TogglePrompt \/ ToggleRule

SpecDocs == InitDocs /\ [][NextDocs]_vars

----------------------------------------------------------------------------
(* Vocabulary of the properties.                                           *)

IsPollCall(c) == c.src = "poll"

(* The texts polls have submitted to the speech engine, in order.          *)
PollTexts == LET p == SelectSeq(calls, IsPollCall)
             IN  [i \in DOMAIN p |-> p[i].text]

(* The elements of a sequence that differ from their predecessor; the      *)
(* first element counts as different.                                      *)
RECURSIVE DistinctFromPrevious(_)
DistinctFromPrevious(seq) ==
    IF Len(seq) <= 1 THEN seq
    ELSE LET front == SubSeq(seq, 1, Len(seq) - 1)
         IN  IF seq[Len(seq)] # seq[Len(seq) - 1]
               THEN Append(DistinctFromPrevious(front), seq[Len(seq)])
               ELSE DistinctFromPrevious(front)

ReceivedSummaries == [i \in DOMAIN received |-> received[i].resp.body.summary]
ReceivedPhrases ==
    [i \in DOMAIN received |-> humanizeThought(received[i].resp.body)]

(* A response the specification counts as a successful poll: the fetch     *)
(* resolved with an OK status and the body is a Thought.                   *)
Successful(r) == r.kind = "json" /\ r.ok /\ r.body.shape = "thought"

(* Voice was on in the closure of every poll handled so far, no two        *)
(* requests were ever outstanding together, and every response handled so  *)
(* far was a successful one.                                               *)
SequentialVoicedSuccesses ==
    /\ ~overlapped
    /\ \A i \in DOMAIN received :
          received[i].ve /\ Successful(received[i].resp)

----------------------------------------------------------------------------
(* C1: in LiveCognitiveCamera and CognitiveAISystem, with voice enabled    *)
(* before the first poll and responses handled one at a time, for every    *)
(* sequence of successful responses with non-empty summaries the texts     *)
(* polls submit to the speech engine are exactly the summaries that differ *)
(* from the summary of the preceding response, in order.                   *)
C1_NarratesEachChangeOnce ==
    ( /\ comp \in {Live, Sys}
      /\ SequentialVoicedSuccesses
      /\ \A i \in DOMAIN received : received[i].resp.body.summary # "" )
    => PollTexts = DistinctFromPrevious(ReceivedSummaries)

(* The scenario A, A, B: two submissions, A then B.                        *)
C1_Witness ==
    /\ comp = Sys
    /\ SequentialVoicedSuccesses
    /\ ReceivedSummaries = <<"A", "A", "B">>
    /\ PollTexts = <<"A", "B">>

(* C2 as stated: in CinematicCognitiveUI, under the same conditions, the   *)
(* number of submissions made by polls equals the number of responses      *)
(* whose summary differs from the summary of the preceding response.       *)
C2_CountsSummaryChanges ==
    (comp = Cine /\ SequentialVoicedSuccesses)
    => Len(PollTexts) = Len(DistinctFromPrevious(ReceivedSummaries))

(* C2 amended: in CinematicCognitiveUI the texts polls submit are the      *)
(* phrases humanizeThought gives for the responses, one for each response  *)
(* whose phrase differs from the phrase of the preceding response.         *)
C2_NarratesEachPhraseChangeOnce ==
    (comp = Cine /\ SequentialVoicedSuccesses)
    => PollTexts = DistinctFromPrevious(ReceivedPhrases)

(* Summaries A, B, A with phrases laptop, laptop, warning: two             *)
(* submissions although the summary changed at every response.             *)
C2_Witness ==
    /\ comp = Cine
    /\ SequentialVoicedSuccesses
    /\ ReceivedSummaries = <<"A", "B", "A">>
    /\ PollTexts = <<"A laptop is in front of you.",
                     "Warning. Someone is very close.">>

----------------------------------------------------------------------------
(* C3: the speech engine never holds more than one utterance, playing or   *)
(* queued: every call of speak cancels what the engine held before it      *)
(* submits the new utterance.                                              *)
C3_AtMostOneUtterance == Len(engine) <= 1

(* A narration was submitted while the previous utterance was still in the *)
(* engine, and only the new one is left.                                   *)
C3_Witness ==
    /\ Len(calls) >= 2
    /\ preempted = 1
    /\ calls[Len(calls)].src = "poll"
    /\ Len(engine) = 1
    /\ engine[1].text = calls[Len(calls)].text

(* C4: while voiceEnabled still has its initial value FALSE, no utterance  *)
(* has been submitted to the speech engine, whatever was polled.           *)
C4_NoSpeechWhileDisabled == ~voiceEnabled => calls = <<>>

(* Several distinct summaries were received with voice off, nothing said.  *)
C4_Witness ==
    /\ ~voiceEnabled
    /\ \A i \in DOMAIN received : Successful(received[i].resp)
    /\ Len(DistinctFromPrevious(ReceivedSummaries)) >= 2
    /\ thought.shape = "thought"
    /\ calls = <<>>

(* C5: the history list of CinematicCognitiveUI never has more than 7      *)
(* entries.                                                                *)
C5_HistoryAtMostSeven == Len(history) <= 7

(* More than 7 bodies were stored and history holds 7.                     *)
C5_Witness ==
    /\ comp = Cine
    /\ mounted
    /\ Len(received) >= 8
    /\ Len(history) = 7

RECURSIVE Reverse(_)
Reverse(seq) ==
    IF seq = <<>> THEN <<>> ELSE Append(Reverse(Tail(seq)), Head(seq))

IsSuccess(e) == Successful(e.resp)

(* The payloads of the successful polls handled so far, newest first.      *)
SuccessfulPayloads ==
    LET ok == SelectSeq(received, IsSuccess)
    IN  Reverse([i \in DOMAIN ok |-> ok[i].resp.body])

(* C6: in CinematicCognitiveUI, history is exactly the payloads of the     *)
(* last min(n, 7) successful polls, newest first.                          *)
C6_HistoryIsRecentSuccesses ==
    (comp = Cine /\ mounted)
    => history = SubSeq(SuccessfulPayloads, 1, Min(7, Len(SuccessfulPayloads)))

LastReceived == received[Len(received)]

(* C7: a poll whose fetch rejects or whose body is not JSON changes none   *)
(* of thought, lastSpoken, voiceEnabled, history, loading, makes no call   *)
(* to the speech engine and does not take the component down.              *)
C7_TransportFailureChangesNothing ==
    [][ ( /\ received' # received
          /\ received'[Len(received')].resp.kind \in {"reject", "badjson"} )
        => UNCHANGED <<thought, lastSpoken, voiceEnabled, history, loading,
                       engine, calls, timers, mounted, crashed>> ]_vars

(* A transport failure was handled by a component that was displaying a    *)
(* thought and had narrated it; all of it is still there.                  *)
C7_Witness ==
    /\ Len(received) >= 2
    /\ LastReceived.resp.kind \in {"reject", "badjson"}
    /\ mounted
    /\ thought = ThoughtA
    /\ lastSpoken # ""
    /\ engine # <<>>

(* C8: a poll answered with a non-OK HTTP status is a failed poll: thought,*)
(* history and lastSpoken keep their values and nothing is narrated.       *)
C8_NonOkStatusChangesNothing ==
    [][ ( /\ received' # received
          /\ received'[Len(received')].resp.kind = "json"
          /\ ~received'[Len(received')].resp.ok )
        => UNCHANGED <<thought, history, lastSpoken, calls>> ]_vars

(* The bodies C9 calls malformed: null, an object without `pipeline`, and  *)
(* in CinematicCognitiveUI a record without pipeline.perception.objects.   *)
MalformedFor(c, d) ==
    \/ d.shape \in {"null", "nopipeline"}
    \/ c = Cine /\ d.shape = "noperception"

(* C9: a poll whose JSON body does not have the Thought shape is a failed  *)
(* poll: thought, history, loading and lastSpoken keep their values.       *)
C9_MalformedBodyChangesNothing ==
    [][ ( /\ received' # received
          /\ received'[Len(received')].resp.kind = "json"
          /\ MalformedFor(comp, received'[Len(received')].resp.body) )
        => UNCHANGED <<thought, history, loading, lastSpoken>> ]_vars

(* C10: in every reachable state thought is null or has the fields the     *)
(* render reads, and so has every history entry: no render throws.         *)
C10_EveryStateRenders ==
    /\ thought.shape = "null" \/ thought.shape \in {"noperception", "thought"}
    /\ \A i \in DOMAIN history :
          history[i].shape \in {"noperception", "thought"}
    /\ ~crashed

----------------------------------------------------------------------------
(* C11: unmounting a component cancels the utterance in progress: right    *)
(* after the clean-up of the unmount the speech engine holds no utterance. *)
C11_UnmountCancelsSpeech ==
    [][ (mounted /\ ~mounted' /\ ~crashed') => engine' = <<>> ]_vars

(* C12: once the component is unmounted no request is issued any more: the *)
(* clean-up cleared the interval timer and no tick fires.                  *)
C12_NoRequestAfterUnmount ==
    [][ ~mounted => (ticks' = ticks /\ Len(pending') <= Len(pending)) ]_vars

(* Unmounted by the user after a poll, with ticks still to come had the    *)
(* timer survived.                                                         *)
C12_Witness ==
    /\ ~mounted
    /\ ~crashed
    /\ received # <<>>
    /\ ticks < pollBudget
    /\ Len(pending) < MaxPending
    /\ timers = <<>>

(* C13: every tick of the timer issues exactly one request, whatever is    *)
(* outstanding and whatever failed before; no request is cancelled and no  *)
(* request is issued without a tick: the ticks so far are the requests     *)
(* outstanding plus the responses handled.                                 *)
C13_OneRequestPerTick == ticks = Len(pending) + Len(received)

(* Two requests outstanding at once, after a poll that failed.             *)
C13_Witness ==
    /\ Len(pending) = 2
    /\ Len(received) = 1
    /\ received[1].resp.kind = "reject"
    /\ ticks = 3

(* C14: the displayed thought is the whole payload of the successful       *)
(* response handled last, also when that response answers a request issued *)
(* before the one displayed until then.                                    *)
C14_LastHandledWins ==
    (mounted /\ received # <<>> /\ Successful(LastReceived.resp))
    => thought = LastReceived.resp.body

(* The third response handled answers a request issued before lastSpoken   *)
(* was first set, the second one a request issued after: the older request *)
(* was answered last and its payload is displayed.                         *)
C14_Witness ==
    /\ mounted
    /\ Len(received) = 3
    /\ \A i \in DOMAIN received : Successful(received[i].resp)
    /\ received[2].ls # ""
    /\ received[3].ls = ""
    /\ received[3].resp.body # received[2].resp.body
    /\ thought = received[3].resp.body

(* C15: for every interleaving of ticks and responses, no two consecutive  *)
(* submissions made by polls carry the same text.                          *)
C15_NoRepeatedNarration ==
    \A i \in 1..(Len(PollTexts) - 1) : PollTexts[i] # PollTexts[i + 1]

(* C16: in CognitiveAISystem the utterance a poll starts is still in the   *)
(* speech engine when the step of that poll (its state updates and the     *)
(* effect re-run they cause) is over.                                      *)
C16_PollUtteranceSurvivesItsPoll ==
    [][ ( /\ comp = Sys
          /\ mounted
          /\ Len(calls') = Len(calls) + 1
          /\ calls'[Len(calls')].src = "poll" )
        => ( /\ engine' # <<>>
             /\ engine'[Len(engine')].text = calls'[Len(calls')].text ) ]_vars

(* C17: lastSpoken is the empty string or the text of the most recent      *)
(* utterance a poll submitted.                                             *)
C17_LastSpokenWasSpoken ==
    mounted =>
      \/ lastSpoken = ""
      \/ PollTexts # <<>> /\ lastSpoken = PollTexts[Len(PollTexts)]

(* A poll has submitted the narration text of ThoughtA.                    *)
NarratedSteady ==
    \E i \in DOMAIN calls :
       calls[i].src = "poll" /\ calls[i].text = NarrationText(comp, ThoughtA)

(* C18: a poll succeeded with text S while voice was off; once voice is    *)
(* enabled, with ticks firing and every poll succeeding with S, S is       *)
(* eventually submitted to the speech engine.                              *)
C18_EnablingVoiceEventuallyNarrates ==
    []( (~voiceEnabled /\ thought = ThoughtA)
        => [](voiceEnabled => <>NarratedSteady) )

(* C19: after the unmount the speech engine receives no call from the      *)
(* component, also when a response to an earlier request arrives.          *)
C19_NoSpeechAfterUnmount ==
    [][ ~mounted => calls' = calls ]_vars

(* C20: the click that turns voiceEnabled from FALSE to TRUE submits the    *)
(* activation phrase in the same action.                                   *)
C20_FirstClickIsAudible ==
    [][ (~voiceEnabled /\ voiceEnabled')
        => ( /\ Len(calls') = Len(calls) + 1
             /\ calls'[Len(calls')].text = ActivationPhrase(comp) ) ]_vars

----------------------------------------------------------------------------
(* C21: between mount and unmount exactly one interval timer is active:    *)
(* every re-run of the effect clears the previous timer before it creates  *)
(* the next one; after the unmount none is active.                         *)
C21_ExactlyOneTimerWhileMounted ==
    Len(timers) = IF mounted THEN 1 ELSE 0

(* The effect has re-run for a change of voiceEnabled and for a change of  *)
(* lastSpoken, and one timer, the one created last, is active.             *)
C21_Witness ==
    /\ mounted
    /\ Len(received) >= 2
    /\ voiceEnabled
    /\ lastSpoken # ""
    /\ timers = <<[ls |-> lastSpoken, ve |-> TRUE]>>

(* A response whose body was parsed: the callback got past `await          *)
(* res.json()` and made its setThought / setLoading / setHistory calls.    *)
IsStored(e) == e.resp.kind = "json"

(* C22: in CinematicCognitiveUI, once the updates of a poll callback are   *)
(* applied, history is empty exactly when no response body has been stored *)
(* yet, loading is true exactly when history is empty, and a non-empty     *)
(* history has the displayed thought as its first entry.                   *)
C22_HistoryLoadingThoughtAgree ==
    (comp = Cine /\ (mounted \/ crashed)) =>
      /\ (history = <<>>) <=> (SelectSeq(received, IsStored) = <<>>)
      /\ loading <=> (history = <<>>)
      /\ history # <<>> => thought = history[1]

(* Two bodies were stored, then a poll failed: loading stayed false and    *)
(* the thought is still the head of history.                               *)
C22_Witness ==
    /\ comp = Cine
    /\ mounted
    /\ Len(history) >= 2
    /\ LastReceived.resp.kind = "reject"
    /\ ~loading
    /\ thought = history[1]

(* C23: in LiveCognitiveCamera and CognitiveAISystem a successful response *)
(* whose summary is the empty string replaces the displayed thought, makes *)
(* no call to the speech engine and leaves lastSpoken unchanged; so with   *)
(* voice enabled and polls handled one at a time, the summaries A, "", A   *)
(* give exactly one narration, of A.                                       *)
C23_EmptySummaryIsSilent ==
    [][ /\ ( /\ comp \in {Live, Sys}
             /\ mounted
             /\ received' # received
             /\ Successful(received'[Len(received')].resp)
             /\ received'[Len(received')].resp.body.summary = "" )
           => ( /\ thought' = received'[Len(received')].resp.body
                /\ calls' = calls
                /\ lastSpoken' = lastSpoken )
        /\ ( /\ comp \in {Live, Sys}
             /\ SequentialVoicedSuccesses'
             /\ ReceivedSummaries' = <<"A", "", "A">> )
           => PollTexts' = <<"A">> ]_vars

(* The scenario A, "", A was played with voice on: one narration, and the  *)
(* thought displayed in between was the one with the empty summary.        *)
C23_Witness ==
    /\ comp = Sys
    /\ mounted
    /\ SequentialVoicedSuccesses
    /\ ReceivedSummaries = <<"A", "", "A">>
    /\ received[2].resp.body = ThoughtE
    /\ thought = ThoughtA
    /\ lastSpoken = "A"
    /\ PollTexts = <<"A">>

----------------------------------------------------------------------------
(* The labels detected in a thought.                                       *)
LabelsOf(t) == {t.objects[i].label : i \in DOMAIN t.objects}

(* CinematicCognitiveUI is displaying the thought of the scene and the     *)
(* callback that stored it has run to its end, so lastSpoken holds what    *)
(* humanizeThought returned for it.                                        *)
PhraseComputed == comp = Cine /\ mounted /\ thought.shape = "thought"

(* C24: for a thought with a detected "person" and risk HIGH or CRITICAL   *)
(* humanizeThought returns "Warning. Someone is very close.".              *)
C24_PersonAtHighOrCriticalWarns ==
    ( /\ PhraseComputed
      /\ "person" \in LabelsOf(thought)
      /\ thought.risk \in {"HIGH", "CRITICAL"} )
    => lastSpoken = "Warning. Someone is very close."

PersonPhrase(risk) ==
    IF risk = "LOW" THEN "I can see someone nearby. Everything looks safe."
    ELSE IF risk = "MEDIUM" THEN "Someone is close. Stay aware."
    ELSE "Warning. Someone is very close."

Phrases ==
    {PersonPhrase("LOW"), PersonPhrase("MEDIUM"), PersonPhrase("HIGH"),
     "A laptop is in front of you.", "I'm observing the surroundings."}

(* C25: humanizeThought returns, for every list of labels and every risk   *)
(* level, one of five non-empty phrases, fixed by the set of labels and    *)
(* the risk level alone: the person phrase of the level when "person" is   *)
(* detected at LOW, MEDIUM or HIGH, whether or not "laptop" is detected;   *)
(* otherwise the laptop phrase when "laptop" is detected; otherwise the    *)
(* neutral phrase.  The summary plays no part.                             *)
C25_PhraseFromLabelsAndRisk ==
    PhraseComputed =>
      LET person == /\ "person" \in LabelsOf(thought)
                    /\ thought.risk \in {"LOW", "MEDIUM", "HIGH"}
          laptop == "laptop" \in LabelsOf(thought)
      IN  /\ lastSpoken \in Phrases
          /\ lastSpoken # ""
          /\ person => lastSpoken = PersonPhrase(thought.risk)
          /\ (~person /\ laptop) => lastSpoken = "A laptop is in front of you."
          /\ (~person /\ ~laptop)
               => lastSpoken = "I'm observing the surroundings."

(* A scene with a laptop and a person at MEDIUM risk, summary "B": the     *)
(* poll narrated the person phrase.                                        *)
C25_Witness ==
    /\ PhraseComputed
    /\ thought = Thought("B", <<"laptop", "person">>, "MEDIUM", "nometa")
    /\ lastSpoken = "Someone is close. Stay aware."
    /\ PollTexts = <<"Someone is close. Stay aware.">>

----------------------------------------------------------------------------
(* The rate and pitch, in hundredths, the claim gives for a tone.          *)
VoiceFor(tone) ==
    IF tone = "urgent" THEN <<110, 80>>
    ELSE IF tone = "curious" THEN <<100, 120>>
    ELSE <<95, 105>>

(* C26: in CognitiveAISystem, whether a poll narrates depends on the       *)
(* summary, the lastSpoken and the voiceEnabled its callback sees, never   *)
(* on the tone; when it narrates, the utterance carries the summary with   *)
(* the rate and pitch of the tone: meta.tone when `meta` is present and    *)
(* the tone non-empty, "calm" otherwise; urgent is (1.1, 0.8), curious     *)
(* (1.0, 1.2), anything else (0.95, 1.05).  The activation phrase of a     *)
(* click is spoken with the curious voice.                                 *)
C26_ToneSelectsVoiceOnly ==
    [][ /\ ( /\ comp = Sys
             /\ received' # received
             /\ Successful(received'[Len(received')].resp) )
           => LET e == received'[Len(received')]
                  d == e.resp.body
                  tone == IF d.tone \in {"nometa", ""} THEN "calm" ELSE d.tone
                  spoken == d.summary # "" /\ d.summary # e.ls /\ e.ve
              IN  IF spoken
                    THEN /\ Len(calls') = Len(calls) + 1
                         /\ calls'[Len(calls')].text = d.summary
                         /\ <<calls'[Len(calls')].rate,
                              calls'[Len(calls')].pitch>> = VoiceFor(tone)
                    ELSE calls' = calls
        /\ (comp = Sys /\ clicks' # clicks /\ calls' # calls)
           => <<calls'[Len(calls')].rate, calls'[Len(calls')].pitch>>
                = VoiceFor("curious") ]_vars

(* A thought tagged urgent was narrated at rate 1.1 and pitch 0.8.         *)
C26_Witness ==
    /\ comp = Sys
    /\ received # <<>>
    /\ LastReceived.resp.body.tone = "urgent"
    /\ calls # <<>>
    /\ calls[Len(calls)] =
         [text |-> LastReceived.resp.body.summary, src |-> "poll",
          rate |-> 110, pitch |-> 80]

----------------------------------------------------------------------------
(* C27: the polling effect is run again (its timer cleared and a new one   *)
(* created) only by a step that changes lastSpoken or voiceEnabled, and    *)
(* its timer is cleared otherwise only by the unmount; a poll that set no  *)
(* lastSpoken and said nothing, and in CognitiveAISystem every action on   *)
(* the documentation pages, leaves the timer, lastSpoken, voiceEnabled and *)
(* the speech engine as they were.                                         *)
C27_TimerFollowsItsDependencies ==
    [][ /\ (timers' # timers \/ effectRuns' # effectRuns)
           => \/ lastSpoken' # lastSpoken
              \/ voiceEnabled' # voiceEnabled
              \/ mounted /\ ~mounted'
        /\ ( /\ mounted /\ mounted'
             /\ received' # received
             /\ lastSpoken' = lastSpoken
             /\ calls' = calls )
           => UNCHANGED <<timers, effectRuns, voiceEnabled, engine>>
        /\ docVars' # docVars
           => UNCHANGED <<timers, effectRuns, lastSpoken, voiceEnabled,
                          engine, thought, calls>> ]_vars

(* CognitiveAISystem with voice on, one narration made, an utterance in    *)
(* the engine, a second poll that only replaced the thought, and the rules *)
(* page open with a card expanded: the effect has run three times, once at *)
(* mount, once for voiceEnabled and once for lastSpoken.                   *)
C27_Witness ==
    /\ comp = Sys
    /\ mounted
    /\ Len(received) = 2
    /\ voiceEnabled
    /\ lastSpoken = "A"
    /\ engine # <<>>
    /\ active = "rules"
    /\ expandedRule = {"R3"}
    /\ effectRuns = 3
    /\ timers = <<[ls |-> "A", ve |-> TRUE]>>

----------------------------------------------------------------------------
(* C28: voiceEnabled starts false, is changed only by a click on Enable    *)
(* Voice, and once true is true in every later state: no poll outcome and  *)
(* no other step turns narration off.                                      *)
C28_VoiceEnabledIsMonotone ==
    /\ ~voiceEnabled
    /\ [][ /\ voiceEnabled => voiceEnabled'
           /\ voiceEnabled' # voiceEnabled => clicks' = clicks + 1 ]_vars

(* Voice was enabled, a second click and polls of both kinds followed, the *)
(* last one a failure: voice is still enabled.                             *)
C28_Witness ==
    /\ mounted
    /\ voiceEnabled
    /\ clicks = 2
    /\ Len(received) >= 2
    /\ received[1].ve
    /\ \E i \in DOMAIN received : received[i].resp.kind = "json"
    /\ LastReceived.resp.kind \in {"reject", "badjson"}

====
